---- MODULE Spec2Model ----
(***************************************************************************)
(* Verification model of the trackam backend: the delivery record and the  *)
(* handlers that mutate it (REST routes, live-channel events, the          *)
(* DeliveryService), the OTP engines, and the live connection registry.    *)
(***************************************************************************)
EXTENDS Integers, Sequences, FiniteSets, TLC

\* ------------------------------------------------------------------------
\* Bounds of the model
\* ------------------------------------------------------------------------
MaxTime == 120
MaxHistory == 2

\* "T1" is the id the generator of the model draws; no delivery ever has "T2".
TrackingIds == {"T1", "T2"}
GeneratedIds == {"T1"}
OtpCodes == {"111111", "222222"}
Points == {"p1", "p2"}
NoPoint == "none"
NoTime == 0 - 1
NoCode == "nocode"

\* ------------------------------------------------------------------------
\* Program constants
\* ------------------------------------------------------------------------
\* timedelta(minutes=60) of the rider OTP written by the delivery routes
RIDER_OTP_EXPIRY_MINUTES == 60
\* timedelta(minutes=10) of OTPService
OTP_SERVICE_EXPIRY_MINUTES == 10
\* settings.OTP_EXPIRY_SECONDS = 600 seconds, in minutes
OTP_EXPIRY_MINUTES == 10

VARIABLES
    db,                \* public.deliveries: tracking id -> row
    location_updates,  \* public.location_updates: sequence of rows
    redis,             \* keys held by the Redis server: key -> value
    auth_initialised,  \* AuthService() has been constructed
    otps,              \* public.otps: the row of the one (phone, purpose) key
    now,               \* the clock, in minutes
    otp_used,          \* history: tracking ids whose rider OTP has verified since its issue
    broadcasts,        \* frames the last handler handed to ConnectionManagerWebsocket.broadcast
    lastOp             \* the handler that ran last, and what it answered

dvars == <<db, location_updates, redis, auth_initialised, otps, now,
           otp_used, broadcasts, lastOp>>

\* ------------------------------------------------------------------------
\* Status vocabularies
\* ------------------------------------------------------------------------
\* EventsWebsocket.process_status_update: valid_statuses
valid_statuses == {"created", "assigned", "accepted", "in_progress", "completed", "cancelled"}

\* DeliveryStatusModel: the values of the enum
DeliveryStatusModel == {"created", "assigned", "accepted", "in_transit", "delivered", "cancelled"}

\* DeliveryService.update_delivery_status: valid_transitions
valid_transitions ==
    [s \in DeliveryStatusModel |->
        CASE s = "created"    -> {"assigned", "cancelled"}
          [] s = "assigned"   -> {"accepted", "cancelled"}
          [] s = "accepted"   -> {"in_transit", "cancelled"}
          [] s = "in_transit" -> {"delivered", "cancelled"}
          [] s = "delivered"  -> {}
          [] s = "cancelled"  -> {}]

\* The name `status` inside delivery_service.py: the fastapi.status module.
FastapiStatusModule == "module fastapi.status"

\* ------------------------------------------------------------------------
\* The repository
\* ------------------------------------------------------------------------
EmptyDict == [exists |-> FALSE]

NewRow(otp, otp_expiry) ==
    [exists |-> TRUE,
     status |-> "created",
     is_tracking_active |-> FALSE,
     location_history |-> << >>,
     rider_current_location |-> NoPoint,
     otp |-> otp,
     otp_expiry |-> otp_expiry,
     assigned_at |-> NoTime,
     accepted_at |-> NoTime,
     in_transit_at |-> NoTime,
     delivered_at |-> NoTime,
     cancelled_at |-> NoTime]

\* DeliveryModel.to_dict of the model the routes are written against: the
\* columns, and the nested 'tracking' view the rider routes read.
ToDict(row) ==
    [exists |-> TRUE,
     status |-> row.status,
     is_tracking_active |-> row.is_tracking_active,
     location_history |-> row.location_history,
     rider_current_location |-> row.rider_current_location,
     otp |-> row.otp,
     otp_expiry |-> row.otp_expiry,
     tracking |-> [otp |-> row.otp,
                   otp_expiry |-> row.otp_expiry,
                   active |-> row.is_tracking_active]]

\* DatabaseOperatorUtil.find_one: the row as a dict, {} when there is none.
find_one(d, tid) == IF d[tid].exists THEN ToDict(d[tid]) ELSE EmptyDict

\* json.dumps: a str holding the encoded value.
json_dumps(v) == [pytype |-> "str", val |-> v]
\* a Python list or dict passed as it is
py_object(v) == [pytype |-> "object", val |-> v]

\* What a JSON column holds after a write of a str or of an object.
JsonColumn(v) == v.val

\* DatabaseOperatorUtil.update / update_database: set the given columns on
\* the rows the filter matches; no row matched is not an error.
update(d, tid, data) ==
    IF d[tid].exists
    THEN [d EXCEPT ![tid] =
            [k \in DOMAIN d[tid] |->
                IF k \in DOMAIN data
                THEN IF k \in {"location_history", "rider_current_location"}
                     THEN JsonColumn(data[k])
                     ELSE data[k]
                ELSE d[tid][k]]]
    ELSE d

\* DatabaseOperatorUtil.save_to_database without update_fields: insert when
\* the filter finds no row, leave the found row alone otherwise.
save_to_database(d, tid, row) ==
    IF d[tid].exists THEN d ELSE [d EXCEPT ![tid] = row]

\* message is the detail text of the answer, and notifier what became of the
\* notification the operation dispatched, where the model keeps them.
OpNotified(name, tid, code, detail, message, notifier) ==
    [op |-> name, tid |-> tid, code |-> code, detail |-> detail, message |-> message,
     notifier |-> notifier]
OpMessage(name, tid, code, detail, message) ==
    OpNotified(name, tid, code, detail, message, "none")
Op(name, tid, code, detail) == OpMessage(name, tid, code, detail, "none")

\* ------------------------------------------------------------------------
\* Live-channel event handlers (EventsWebsocket), as functions of the table
\* ------------------------------------------------------------------------
Frame(type, tid, status) == [type |-> type, tracking_id |-> tid, status |-> status]
NoStatus == "nostatus"

\* EventsWebsocket.process_status_update: TRUE when it returns broadcast_data
process_status_update_ok(status) == status \in valid_statuses
process_status_update_db(d, tid, status) ==
    IF status \in valid_statuses
    THEN update(d, tid, [status |-> status])
    ELSE d
process_status_update_bc(b, tid, status) ==
    IF status \in valid_statuses
    THEN b \cup {Frame("status_update", tid, status)}
    ELSE b

\* EventsWebsocket.process_delivery_confirmation
process_delivery_confirmation_db(d, tid) ==
    update(d, tid, [status |-> "completed", is_tracking_active |-> FALSE])
process_delivery_confirmation_bc(b, tid) ==
    b \cup {Frame("delivery_confirmation", tid, "completed")}

\* EventsWebsocket.process_location_update: TRUE when it returns broadcast_data
process_location_update_ok(d, tid) == find_one(d, tid).exists
process_location_update_db(d, tid, location_data) ==
    LET delivery == find_one(d, tid) IN
    IF ~delivery.exists
    THEN d
    ELSE LET location_history == Append(delivery.location_history, location_data) IN
         update(d, tid, [rider_current_location |-> py_object(location_data),
                         location_history |-> py_object(location_history)])
process_location_update_bc(d, b, tid) ==
    IF find_one(d, tid).exists
    THEN b \cup {Frame("location_update", tid, NoStatus)}
    ELSE b

\* ------------------------------------------------------------------------
\* The clock
\* ------------------------------------------------------------------------
Tick(delta) ==
    /\ now + delta <= MaxTime
    /\ now' = now + delta
    /\ lastOp' = Op("tick", "T1", "none", "none")
    /\ broadcasts' = {}
    /\ UNCHANGED <<db, location_updates, redis, auth_initialised, otps, otp_used>>

\* ------------------------------------------------------------------------
\* Live-channel messages dispatched by EventsWebsocket.process_message
\* ------------------------------------------------------------------------
ws_status_update(tid, status) ==
    /\ db' = process_status_update_db(db, tid, status)
    /\ broadcasts' = process_status_update_bc({}, tid, status)
    /\ lastOp' = Op("ws_status_update", tid,
                    IF process_status_update_ok(status) THEN "ok" ELSE "error", status)
    /\ UNCHANGED <<location_updates, redis, auth_initialised, otps, now, otp_used>>

ws_delivery_confirmation(tid) ==
    /\ db' = process_delivery_confirmation_db(db, tid)
    /\ broadcasts' = process_delivery_confirmation_bc({}, tid)
    /\ lastOp' = Op("ws_delivery_confirmation", tid, "ok", "completed")
    /\ UNCHANGED <<location_updates, redis, auth_initialised, otps, now, otp_used>>

ws_location_update(tid, p) ==
    /\ db[tid].exists => Len(db[tid].location_history) < MaxHistory
    /\ db' = process_location_update_db(db, tid, p)
    /\ broadcasts' = process_location_update_bc(db, {}, tid)
    /\ lastOp' = Op("ws_location_update", tid,
                    IF process_location_update_ok(db, tid) THEN "ok" ELSE "error", p)
    /\ UNCHANGED <<location_updates, redis, auth_initialised, otps, now, otp_used>>

\* ------------------------------------------------------------------------
\* REST routes of the rider, the customer and the vendor
\* ------------------------------------------------------------------------
others == <<location_updates, redis, auth_initialised, otps, now>>


\* What a route answers and leaves behind: the table, the frames, the answer.
ReplyOtp(d, b, used, name, tid, code, detail) ==
    /\ db' = d
    /\ broadcasts' = b
    /\ otp_used' = used
    /\ lastOp' = Op(name, tid, code, detail)
    /\ UNCHANGED others

Reply(d, b, name, tid, code, detail) == ReplyOtp(d, b, otp_used, name, tid, code, detail)

\* A route that updates the row to `data` and then hands `status` to
\* EventsWebsocket.process_status_update.
UpdateThenStatusEvent(name, tid, data, status) ==
    LET d1 == update(db, tid, data) IN
    Reply(process_status_update_db(d1, tid, status),
          process_status_update_bc({}, tid, status),
          name, tid, "200", status)

\* RiderRouter.verify_otp: the status code and the detail of the answer
rider_verify_otp_response(d, tid, otp, t) ==
    LET delivery == find_one(d, tid) IN
    IF ~delivery.exists THEN <<"404", "Delivery not found">>
    ELSE IF delivery.tracking.otp # otp THEN <<"400", "Invalid OTP">>
    ELSE IF delivery.tracking.otp_expiry = NoTime THEN <<"400", "OTP has expired">>
    ELSE IF t > delivery.tracking.otp_expiry THEN <<"400", "OTP has expired">>
    ELSE <<"200", "OTP verified successfully">>

\* RiderRouter.verify_otp
rider_verify_otp(tid, otp) ==
    LET answer == rider_verify_otp_response(db, tid, otp, now) IN
    IF answer[1] # "200"
    THEN /\ db' = db
         /\ broadcasts' = {}
         /\ otp_used' = otp_used
         /\ lastOp' = OpMessage("rider_verify_otp", tid, answer[1], otp, answer[2])
         /\ UNCHANGED others
    ELSE LET d1 == update(db, tid, [status |-> "accepted"]) IN
         /\ db' = process_status_update_db(d1, tid, "accepted")
         /\ broadcasts' = process_status_update_bc({}, tid, "accepted")
         /\ otp_used' = otp_used \cup {tid}
         /\ lastOp' = OpMessage("rider_verify_otp", tid, answer[1], otp, answer[2])
         /\ UNCHANGED others

\* RiderRouter.accept_delivery
rider_accept_delivery(tid) ==
    LET delivery == find_one(db, tid) IN
    IF ~delivery.exists
    THEN Reply(db, {}, "rider_accept_delivery", tid, "404", "Delivery not found")
    ELSE IF delivery.status \notin {"created", "assigned"}
    THEN Reply(db, {}, "rider_accept_delivery", tid, "400", "Cannot accept")
    ELSE UpdateThenStatusEvent("rider_accept_delivery", tid, [status |-> "assigned"], "assigned")

\* RiderRouter.decline_delivery
rider_decline_delivery(tid) ==
    LET delivery == find_one(db, tid) IN
    IF ~delivery.exists
    THEN Reply(db, {}, "rider_decline_delivery", tid, "404", "Delivery not found")
    ELSE IF delivery.status \notin {"created", "assigned"}
    THEN Reply(db, {}, "rider_decline_delivery", tid, "400", "Cannot decline")
    ELSE UpdateThenStatusEvent("rider_decline_delivery", tid, [status |-> "cancelled"], "cancelled")

\* RiderRouter.start_tracking
rider_start_tracking(tid) ==
    LET delivery == find_one(db, tid) IN
    IF ~delivery.exists
    THEN Reply(db, {}, "rider_start_tracking", tid, "404", "Delivery not found")
    ELSE IF delivery.status # "accepted"
    THEN Reply(db, {}, "rider_start_tracking", tid, "400", "Cannot start tracking")
    ELSE UpdateThenStatusEvent("rider_start_tracking", tid,
                               [status |-> "in_progress", is_tracking_active |-> TRUE],
                               "in_progress")

\* RiderRouter.complete_delivery
rider_complete_delivery(tid) ==
    LET delivery == find_one(db, tid) IN
    IF ~delivery.exists
    THEN Reply(db, {}, "rider_complete_delivery", tid, "404", "Delivery not found")
    ELSE IF delivery.status # "in_progress"
    THEN Reply(db, {}, "rider_complete_delivery", tid, "400", "Cannot complete")
    ELSE UpdateThenStatusEvent("rider_complete_delivery", tid,
                               [status |-> "completed", is_tracking_active |-> FALSE],
                               "completed")

\* RiderRouter.update_location
rider_update_location(tid, p) ==
    LET delivery == find_one(db, tid) IN
    IF ~delivery.exists
    THEN Reply(db, {}, "rider_update_location", tid, "404", "Delivery not found")
    ELSE IF ~delivery.tracking.active
    THEN Reply(db, {}, "rider_update_location", tid, "400", "Tracking is not active")
    ELSE LET location_history == Append(delivery.location_history, p)
             d1 == update(db, tid, [rider_current_location |-> json_dumps(p),
                                    location_history |-> json_dumps(location_history)])
         IN  /\ Len(delivery.location_history) + 2 <= MaxHistory
             /\ Reply(process_location_update_db(d1, tid, p),
                      process_location_update_bc(d1, {}, tid),
                      "rider_update_location", tid, "200", p)

\* CustomerRouter.confirm_delivery
customer_confirm_delivery(tid) ==
    LET delivery == find_one(db, tid) IN
    IF ~delivery.exists
    THEN Reply(db, {}, "customer_confirm_delivery", tid, "404", "Delivery not found")
    ELSE IF delivery.status # "in_progress"
    THEN Reply(db, {}, "customer_confirm_delivery", tid, "400", "Cannot confirm")
    ELSE LET d1 == update(db, tid, [status |-> "completed", is_tracking_active |-> FALSE]) IN
         Reply(process_delivery_confirmation_db(d1, tid),
               process_delivery_confirmation_bc({}, tid),
               "customer_confirm_delivery", tid, "200", "completed")

\* DeliveryRouter.cancel_delivery
vendor_cancel_delivery(tid) ==
    LET delivery == find_one(db, tid) IN
    IF ~delivery.exists
    THEN Reply(db, {}, "vendor_cancel_delivery", tid, "404", "Delivery not found")
    ELSE IF delivery.status \in {"completed", "cancelled"}
    THEN Reply(db, {}, "vendor_cancel_delivery", tid, "400", "Cannot cancel")
    ELSE Reply(update(db, tid, [status |-> "cancelled", is_tracking_active |-> FALSE]),
               {}, "vendor_cancel_delivery", tid, "200", "cancelled")

\* What becomes of a message handed to sms_service.send_whatsapp: it is sent,
\* the service answers False, or the call raises.
NotifierOutcomes == {"sent", "failed", "raised"}

\* a notification helper that lets the exception of the notifier through
send_rider_notification_unguarded(outcome) ==
    CASE outcome = "sent" -> "True"
      [] outcome = "failed" -> "False"
      [] OTHER -> "raise"

\* DeliveryRouter._send_rider_notification: True when the message was sent,
\* False when it was not or when anything raised.
_send_rider_notification(outcome) ==
    IF outcome = "sent" THEN "True" ELSE "False"

\* DeliveryRouter.create_delivery after the row is read back: the value of
\* the notification is dropped; an exception would reach `except Exception`.
create_delivery_code(notification) ==
    IF notification = "raise" THEN "500" ELSE "200"

\* DeliveryRouter.create_delivery: the tracking id and the OTP are drawn at
\* random; the row is saved unless the id is taken, and whatever row then
\* carries the id is returned.
vendor_create_delivery(tid, otp) ==
    LET delivery == NewRow(otp, now + RIDER_OTP_EXPIRY_MINUTES) IN
    \E outcome \in NotifierOutcomes :
       /\ db' = save_to_database(db, tid, delivery)
       /\ broadcasts' = {}
       /\ otp_used' = IF db[tid].exists THEN otp_used ELSE otp_used \ {tid}
       /\ lastOp' = OpNotified("vendor_create_delivery", tid,
                               create_delivery_code(_send_rider_notification(outcome)),
                               otp, "none", outcome)
       /\ UNCHANGED others

\* DeliveryRouter.resend_notifications: a new OTP when the stored one expired.
\* Every exception, the 404 included, is answered as a 500.
vendor_resend_notifications(tid, new_otp) ==
    LET delivery == find_one(db, tid) IN
    IF ~delivery.exists
    THEN Reply(db, {}, "vendor_resend_notifications", tid, "500", "Failed to resend")
    ELSE LET otp_expired == IF delivery.otp_expiry # NoTime
                            THEN now > delivery.otp_expiry
                            ELSE TRUE
         IN  IF otp_expired
             THEN ReplyOtp(update(db, tid, [otp |-> new_otp,
                                            otp_expiry |-> now + RIDER_OTP_EXPIRY_MINUTES]),
                           {}, otp_used \ {tid},
                           "vendor_resend_notifications", tid, "200", new_otp)
             ELSE Reply(db, {}, "vendor_resend_notifications", tid, "200", "existing")

\* DeliveryRouter.get_delivery_by_tracking: the 404 it raises is caught by
\* its own `except Exception` and answered as a 500.
vendor_get_delivery_by_tracking(tid) ==
    LET delivery == find_one(db, tid) IN
    IF ~delivery.exists
    THEN Reply(db, {}, "vendor_get_delivery_by_tracking", tid, "500", "Failed to retrieve")
    ELSE Reply(db, {}, "vendor_get_delivery_by_tracking", tid, "200", "none")

\* DeliveryRouter.get_public_delivery_by_tracking: likewise
public_get_delivery_by_tracking(tid) ==
    LET delivery == find_one(db, tid) IN
    IF ~delivery.exists
    THEN Reply(db, {}, "public_get_delivery_by_tracking", tid, "500", "Failed to retrieve")
    ELSE Reply(db, {}, "public_get_delivery_by_tracking", tid, "200", "none")

\* DeliveryRouter.notify_customer: likewise
vendor_notify_customer(tid) ==
    LET delivery == find_one(db, tid) IN
    IF ~delivery.exists
    THEN Reply(db, {}, "vendor_notify_customer", tid, "500", "Failed to send")
    ELSE Reply(db, {}, "vendor_notify_customer", tid, "200", "none")

\* CustomerRouter.get_public_delivery: `except HTTPException: raise` lets
\* the 404 through.
customer_get_public_delivery(tid) ==
    LET delivery == find_one(db, tid) IN
    IF ~delivery.exists
    THEN Reply(db, {}, "customer_get_public_delivery", tid, "404", "Delivery not found")
    ELSE Reply(db, {}, "customer_get_public_delivery", tid, "200", "none")

\* ------------------------------------------------------------------------
\* AuthService: the OTP of a tracking id, kept in Redis
\* ------------------------------------------------------------------------
NoKey == "nokey"

\* AuthService.hash_otp: sha256 of "otp:tracking_id"
hash_otp(otp, tid) == <<"sha256", otp, tid>>

\* RedisUtil.get, set, expire and delete are `async def`: a call that is not
\* awaited yields a coroutine object and runs none of the method's body.
Coroutine == [pytype |-> "coroutine"]
RedisUtil_get(key) == Coroutine
RedisUtil_set(r, key, value) == r
RedisUtil_delete(r, key) == r

\* Python truth value, and whether the object has a decode() method.
Truthy(v) == v.pytype \notin {"none"}
HasDecode(v) == v.pytype = "bytes"

\* AuthService.store_otp: <<success, error>>
AuthService_store_otp_result(initialised) ==
    IF ~initialised THEN <<FALSE, "AttributeError">> ELSE <<TRUE, "None">>
AuthService_store_otp_redis(r, initialised, otp, tid) ==
    IF ~initialised THEN r ELSE RedisUtil_set(r, tid, hash_otp(otp, tid))

\* AuthService.verify_otp: <<is_valid, error>>
AuthService_verify_otp_result(r, initialised, otp, tid) ==
    LET stored_hash == RedisUtil_get(tid)
        input_hash == hash_otp(otp, tid)
    IN  IF ~initialised THEN <<FALSE, "AttributeError">>
        ELSE IF ~Truthy(stored_hash) THEN <<FALSE, "OTP expired or not found">>
        ELSE IF ~HasDecode(stored_hash) THEN <<FALSE, "AttributeError">>
        ELSE IF input_hash = stored_hash.val THEN <<TRUE, "None">>
        ELSE <<FALSE, "Invalid OTP">>
AuthService_verify_otp_redis(r, initialised, otp, tid) ==
    IF AuthService_verify_otp_result(r, initialised, otp, tid)[1]
    THEN RedisUtil_delete(r, tid)
    ELSE r

\* AuthService(): the constructor sets redis_conn on the class.
AuthService_init ==
    /\ ~auth_initialised
    /\ auth_initialised' = TRUE
    /\ lastOp' = Op("AuthService_init", "T1", "none", "none")
    /\ broadcasts' = {}
    /\ UNCHANGED <<db, location_updates, redis, otps, now, otp_used>>

AuthService_store_otp(tid, otp) ==
    LET res == AuthService_store_otp_result(auth_initialised) IN
    /\ redis' = AuthService_store_otp_redis(redis, auth_initialised, otp, tid)
    /\ lastOp' = Op("AuthService_store_otp", tid, IF res[1] THEN "ok" ELSE "error", otp)
    /\ broadcasts' = {}
    /\ UNCHANGED <<db, location_updates, auth_initialised, otps, now, otp_used>>

AuthService_verify_otp(tid, otp) ==
    LET res == AuthService_verify_otp_result(redis, auth_initialised, otp, tid) IN
    /\ redis' = AuthService_verify_otp_redis(redis, auth_initialised, otp, tid)
    /\ lastOp' = Op("AuthService_verify_otp", tid, IF res[1] THEN "ok" ELSE "error", otp)
    /\ broadcasts' = {}
    /\ UNCHANGED <<db, location_updates, auth_initialised, otps, now, otp_used>>

\* ------------------------------------------------------------------------
\* OTPService: the OTP of a phone number and purpose, kept in public.otps
\* ------------------------------------------------------------------------
NoOtpRow == [exists |-> FALSE]

\* OTPService.store_otp: save_to_database with update_fields is an upsert.
OTPService_store_otp_row(otp_code, t) ==
    [exists |-> TRUE, code |-> otp_code,
     expires_at |-> t + OTP_SERVICE_EXPIRY_MINUTES, is_used |-> FALSE]

\* the filter without its test of expires_at
verify_otp_found_at_any_time(row, otp_code, t) ==
    /\ row.exists
    /\ row.code = otp_code
    /\ row.is_used = FALSE

\* a save that leaves the row it finds as it is
store_otp_keeps_existing(existing, otp_code, t) ==
    IF existing.exists THEN existing ELSE OTPService_store_otp_row(otp_code, t)

\* OTPService.store_otp: the row of the phone number and purpose after the
\* save, which rewrites code, expires_at and is_used of the row it finds.
OTPService_store_otp_saved(existing, otp_code, t) ==
    LET otp_data == OTPService_store_otp_row(otp_code, t) IN
    IF existing.exists
    THEN [existing EXCEPT !.code = otp_data.code,
                          !.expires_at = otp_data.expires_at,
                          !.is_used = otp_data.is_used]
    ELSE otp_data

\* OTPService.verify_otp: the filter of the find_one
OTPService_verify_otp_found(row, otp_code, t) ==
    /\ row.exists
    /\ row.code = otp_code
    /\ row.is_used = FALSE
    /\ row.expires_at > t

OTPService_store_otp(otp_code) ==
    /\ otps' = OTPService_store_otp_saved(otps, otp_code, now)
    /\ lastOp' = Op("OTPService_store_otp", "T1", "ok", otp_code)
    /\ broadcasts' = {}
    /\ UNCHANGED <<db, location_updates, redis, auth_initialised, now, otp_used>>

OTPService_verify_otp(otp_code) ==
    LET found == OTPService_verify_otp_found(otps, otp_code, now) IN
    /\ otps' = IF found THEN [otps EXCEPT !.is_used = TRUE] ELSE otps
    /\ lastOp' = Op("OTPService_verify_otp", "T1", IF found THEN "ok" ELSE "error", otp_code)
    /\ broadcasts' = {}
    /\ UNCHANGED <<db, location_updates, redis, auth_initialised, now, otp_used>>

\* ------------------------------------------------------------------------
\* DeliveryService
\* ------------------------------------------------------------------------
\* DeliveryStatusModel(value): the enum member, ValueError for another value
IsDeliveryStatus(value) == value \in DeliveryStatusModel

StageTimestamp(delivery_status) ==
    CASE delivery_status = "assigned"   -> "assigned_at"
      [] delivery_status = "accepted"   -> "accepted_at"
      [] delivery_status = "in_transit" -> "in_transit_at"
      [] delivery_status = "delivered"  -> "delivered_at"
      [] delivery_status = "cancelled"  -> "cancelled_at"
      [] OTHER -> "none"

\* DeliveryService.update_delivery_status: the answer. The membership test
\* of the transition reads `status`, the fastapi module, not delivery_status.
update_delivery_status_code(d, tid, delivery_status) ==
    LET delivery == find_one(d, tid) IN
    IF ~delivery.exists THEN "404"
    ELSE IF ~IsDeliveryStatus(delivery.status) THEN "ValueError"
    ELSE IF FastapiStatusModule \notin valid_transitions[delivery.status] THEN "400"
    ELSE "AttributeError"

\* DeliveryService.update_delivery_status: the table afterwards. The update
\* is reached only past the membership test, and builds its data from
\* status.value, which the module does not have.
update_delivery_status_db(d, tid, delivery_status) == d

DeliveryService_update_delivery_status(tid, delivery_status) ==
    /\ db' = update_delivery_status_db(db, tid, delivery_status)
    /\ lastOp' = Op("update_delivery_status", tid,
                    update_delivery_status_code(db, tid, delivery_status), delivery_status)
    /\ broadcasts' = {}
    /\ UNCHANGED <<others, otp_used>>

\* DeliveryService.verify_driver_otp
DeliveryService_verify_driver_otp(tid, otp_code) ==
    LET delivery == find_one(db, tid)
        res == AuthService_verify_otp_result(redis, auth_initialised, otp_code, tid)
    IN  IF ~delivery.exists
        THEN /\ lastOp' = Op("verify_driver_otp", tid, "error", otp_code)
             /\ broadcasts' = {}
             /\ UNCHANGED <<db, location_updates, redis, auth_initialised, otps, now, otp_used>>
        ELSE /\ redis' = AuthService_verify_otp_redis(redis, auth_initialised, otp_code, tid)
             /\ IF ~res[1]
                THEN /\ lastOp' = Op("verify_driver_otp", tid, "error", otp_code)
                     /\ db' = db
                ELSE IF ~IsDeliveryStatus(delivery.status)
                THEN /\ lastOp' = Op("verify_driver_otp", tid, "ValueError", otp_code)
                     /\ db' = db
                ELSE IF delivery.status \in {"created", "assigned"}
                THEN LET code == update_delivery_status_code(db, tid, "accepted") IN
                     /\ lastOp' = Op("verify_driver_otp", tid,
                                     IF code = "200" THEN "ok" ELSE code, otp_code)
                     /\ db' = update_delivery_status_db(db, tid, "accepted")
                ELSE /\ lastOp' = Op("verify_driver_otp", tid, "ok", otp_code)
                     /\ db' = db
             /\ broadcasts' = {}
             /\ UNCHANGED <<location_updates, auth_initialised, otps, now, otp_used>>

\* DeliveryService.add_location_update: save_to_database with filter_by={}
\* finds the first row of the table, whatever delivery it belongs to, and
\* inserts only when the table is empty.
DeliveryService_add_location_update(tid, p) ==
    LET delivery == find_one(db, tid) IN
    /\ IF ~delivery.exists
       THEN /\ lastOp' = Op("add_location_update", tid, "404", p)
            /\ location_updates' = location_updates
       ELSE /\ lastOp' = Op("add_location_update", tid, "200", p)
            /\ location_updates' =
                  IF location_updates # << >>
                  THEN location_updates
                  ELSE Append(location_updates, [delivery_id |-> tid, point |-> p])
    /\ broadcasts' = {}
    /\ UNCHANGED <<db, redis, auth_initialised, otps, now, otp_used>>

\* ------------------------------------------------------------------------
\* The live connection registry (ConnectionManagerWebsocket) and the
\* endpoint task of each live connection (WebSocketRouter.websocket_endpoint)
\* ------------------------------------------------------------------------
MaxClients == 3
MaxMessages == 1

\* Connections, numbered in their order of arrival: each one draws a fresh
\* uuid4 as its client id, so no id is ever used twice.
Clients == 1..MaxClients
NoHolder == 0

\* The tracking ids a connection may name in its URL. The two groups are
\* interchangeable in the registry, so the first connection names "T1".
ConnectionPaths(c) == IF c = 1 THEN {"T1"} ELSE TrackingIds

VARIABLES
    active_connections,  \* tracking id -> the clients of the group, in insertion order
    client_tracking_id,  \* client id -> tracking id
    lock,                \* the holder of the asyncio.Lock, NoHolder when free
    pc,                  \* where the endpoint task of each connection stands
    path,                \* the {tracking_id} of the URL of each connection
    chan,                \* the channel to the client: "open", "closed" or "broken"
    bc,                  \* the broadcast each task is running, or ran last
    announced,           \* history: the count carried by the last connections_info of a group
    left,                \* history: the clients disconnect() has been called for
    received,            \* the number of turns of the loops that sent a frame
    message,             \* the message each endpoint task is answering
    response             \* the frame each endpoint task is about to send its client

rvars == <<active_connections, client_tracking_id, lock, pc, path, chan, bc,
           announced, left, received, message, response>>

Range(seq) == {seq[i] : i \in 1..Len(seq)}
Without(seq, c) == SelectSeq(seq, LAMBDA x : x # c)
DropKey(f, k) == [x \in DOMAIN f \ {k} |-> f[x]]

\* ConnectionManagerWebsocket.get_connections_count
get_connections_count(ac, tracking_id) ==
    IF tracking_id \notin DOMAIN ac THEN 0 ELSE Len(ac[tracking_id])

\* ConnectionManagerWebsocket.get_all_tracking_ids
get_all_tracking_ids(ac) == DOMAIN ac

\* ConnectionManagerWebsocket.connect, under the lock: the two maps afterwards
connect_active_connections(ac, tracking_id, client_id) ==
    LET ac1 == IF tracking_id \notin DOMAIN ac THEN ac @@ (tracking_id :> << >>) ELSE ac
    IN  [ac1 EXCEPT ![tracking_id] =
            IF client_id \in Range(@) THEN @ ELSE Append(@, client_id)]

connect_client_tracking_id(ctid, tracking_id, client_id) ==
    IF client_id \in DOMAIN ctid
    THEN [ctid EXCEPT ![client_id] = tracking_id]
    ELSE ctid @@ (client_id :> tracking_id)

\* A disconnect that forgets to delete the connection from its group
disconnect_keeps_connection(ac, ctid, client_id) == ac

\* ConnectionManagerWebsocket.disconnect, under the lock: the two maps afterwards
disconnect_active_connections(ac, ctid, client_id) ==
    IF client_id \notin DOMAIN ctid
    THEN ac
    ELSE LET tracking_id == ctid[client_id] IN
         IF tracking_id \notin DOMAIN ac
         THEN ac
         ELSE LET ac1 == [ac EXCEPT ![tracking_id] = Without(@, client_id)] IN
              IF ac1[tracking_id] = << >> THEN DropKey(ac1, tracking_id) ELSE ac1

\* A disconnect that leaves the client in client_tracking_id
disconnect_keeps_client_mapping(ac, ctid, client_id) == ctid

disconnect_client_tracking_id(ac, ctid, client_id) ==
    IF client_id \notin DOMAIN ctid THEN ctid ELSE DropKey(ctid, client_id)

\* The clients that joined group T and that disconnect() was not called for
Members(T) == {c \in Clients : pc[c] # "idle" /\ path[c] = T /\ c \notin left}

\* ConnectionManagerWebsocket.broadcast: what the loop still has to send to
\* after a send that succeeded, and after one that raised
\* A broadcast that gives up at the first send that raises
broadcast_abort_on_error(connections) == << >>

broadcast_after_send(connections) == Tail(connections)
broadcast_after_error(connections) == Tail(connections)

\* The frames an endpoint task sends its own client, by the fields the
\* consumer reads: type, tracking_id and error, each one possibly absent.
NoField == "absent"
OutFrame(type, tracking_id, error) ==
    [type |-> type, tracking_id |-> tracking_id, error |-> error]
NoResponse == OutFrame("none", "none", "none")
NoMessage == "none"

\* the messages that carry no known type: a type process_message does not
\* know, no type at all, and a text that json.loads refuses
MalformedMessages == {"unknown_type", "missing_type", "invalid_json"}

\* {"error": ...}: neither type nor tracking_id
ErrorFrame == OutFrame(NoField, NoField, "error")

\* a process_message that has no answer for a type it does not know
process_message_silent_on_unknown(message_type, tid, status) ==
    CASE message_type = "missing_type" -> ErrorFrame
      [] message_type = "status_update" ->
            IF process_status_update_ok(status)
            THEN OutFrame("status_update", tid, NoField)
            ELSE ErrorFrame
      [] message_type = "ping" -> OutFrame("pong", NoField, NoField)
      [] OTHER -> NoResponse

\* EventsWebsocket.process_message: the response to a message of a type
process_message(message_type, tid, status) ==
    CASE message_type = "missing_type" -> ErrorFrame
      [] message_type = "status_update" ->
            IF process_status_update_ok(status)
            THEN OutFrame("status_update", tid, NoField)
            ELSE ErrorFrame
      [] message_type = "ping" -> OutFrame("pong", NoField, NoField)
      [] OTHER -> ErrorFrame

\* websocket_endpoint: the frame sent back for a received text
endpoint_response(kind, tid, status) ==
    IF kind = "invalid_json" THEN ErrorFrame ELSE process_message(kind, tid, status)

\* the frame sent after 30 seconds without a message
KeepaliveFrame == OutFrame("ping", NoField, NoField)

IdleBroadcast ==
    [tid |-> "T1", type |-> "none", queue |-> << >>, members |-> {}, sent |-> {},
     failed |-> {}, then |-> "idle"]

\* The start of broadcast(tid, message) by task k, which goes on at `then`
\* when the broadcast returns: the snapshot list(...items()) is taken before
\* the first await, and a group that is not in the registry returns at once.
StartBroadcast(k, ac, members, tid, type, then) ==
    LET connections == IF tid \notin DOMAIN ac THEN << >> ELSE ac[tid] IN
    /\ bc' = [bc EXCEPT ![k] = [tid |-> tid, type |-> type, queue |-> connections,
                                members |-> members, sent |-> {}, failed |-> {},
                                then |-> then]]
    /\ pc' = [pc EXCEPT ![k] = IF connections = << >> THEN then ELSE "broadcast"]

\* EventsWebsocket.send_connection_info(tid) by task k
send_connection_info(k, ac, members, tid, then) ==
    /\ announced' = [announced EXCEPT ![tid] = get_connections_count(ac, tid)]
    /\ StartBroadcast(k, ac, members, tid, "connections_info", then)

\* A connect that registers the client and leaves the lock free while
\* connection_status is being sent
endpoint_connect_unlocked(c, tid) ==
    /\ pc[c] = "idle"
    /\ \A d \in Clients : d < c => pc[d] # "idle"
    /\ lock = NoHolder
    /\ lock' = NoHolder
    /\ active_connections' = connect_active_connections(active_connections, tid, c)
    /\ client_tracking_id' = connect_client_tracking_id(client_tracking_id, tid, c)
    /\ pc' = [pc EXCEPT ![c] = "connect_send"]
    /\ path' = [path EXCEPT ![c] = tid]
    /\ chan' = [chan EXCEPT ![c] = "open"]
    /\ UNCHANGED <<bc, announced, left, received>>
    /\ UNCHANGED <<message, response>>
    /\ UNCHANGED dvars

\* websocket_endpoint up to the first await inside the lock: accept, take the
\* lock, register, and start sending connection_status with the lock held.
endpoint_connect(c, tid) ==
    /\ pc[c] = "idle"
    /\ \A d \in Clients : d < c => pc[d] # "idle"
    /\ lock = NoHolder
    /\ lock' = c
    /\ active_connections' = connect_active_connections(active_connections, tid, c)
    /\ client_tracking_id' = connect_client_tracking_id(client_tracking_id, tid, c)
    /\ pc' = [pc EXCEPT ![c] = "connect_send"]
    /\ path' = [path EXCEPT ![c] = tid]
    /\ chan' = [chan EXCEPT ![c] = "open"]
    /\ UNCHANGED <<bc, announced, left, received>>
    /\ UNCHANGED <<message, response>>
    /\ UNCHANGED dvars

\* The send of connection_status returns or raises; the lock is released
\* either way. After it the endpoint announces the count to the group.
connect_sent(c) ==
    /\ pc[c] = "connect_send"
    /\ lock' = NoHolder
    /\ IF chan[c] = "open"
       THEN send_connection_info(c, active_connections, Members(path[c]), path[c], "loop")
       ELSE /\ pc' = [pc EXCEPT ![c] = "cleanup"]
            /\ UNCHANGED <<bc, announced>>
    /\ UNCHANGED <<active_connections, client_tracking_id, path, chan, left, received>>
    /\ UNCHANGED <<message, response>>
    /\ UNCHANGED dvars

\* One turn of the loop of broadcast: a send to the next client of the
\* snapshot; a send that raises is followed by disconnect(client_id), which
\* waits for the lock.
broadcast_send(k) ==
    /\ pc[k] = "broadcast"
    /\ LET b == bc[k]
           client_id == Head(b.queue)
           ok == chan[client_id] = "open"
           rest == IF ok THEN broadcast_after_send(b.queue)
                         ELSE broadcast_after_error(b.queue)
       IN  /\ ~ok => lock = NoHolder
           /\ bc' = [bc EXCEPT ![k] =
                        [b EXCEPT !.queue = rest,
                                  !.sent = IF ok THEN @ \cup {client_id} ELSE @,
                                  !.failed = IF ok THEN @ ELSE @ \cup {client_id}]]
           /\ active_connections' =
                 IF ok THEN active_connections
                 ELSE disconnect_active_connections(active_connections, client_tracking_id, client_id)
           /\ client_tracking_id' =
                 IF ok THEN client_tracking_id
                 ELSE disconnect_client_tracking_id(active_connections, client_tracking_id, client_id)
           /\ left' = IF ok THEN left ELSE left \cup {client_id}
           /\ pc' = [pc EXCEPT ![k] = IF rest = << >> THEN b.then ELSE "broadcast"]
    /\ UNCHANGED <<lock, path, chan, announced, received>>
    /\ UNCHANGED <<message, response>>
    /\ UNCHANGED dvars

\* The loop of websocket_endpoint: a status_update message arrives, is
\* processed by EventsWebsocket.process_message, which broadcasts the event to
\* the group named in the message, and the response goes back to the sender.
ws_receive_status_update(c, tid, status) ==
    /\ pc[c] = "loop"
    /\ chan[c] = "open"
    /\ received < MaxMessages
    /\ received' = received + 1
    /\ ws_status_update(tid, status)
    /\ message' = [message EXCEPT ![c] = "status_update"]
    /\ response' = [response EXCEPT ![c] = endpoint_response("status_update", tid, status)]
    /\ IF process_status_update_ok(status)
       THEN StartBroadcast(c, active_connections, Members(tid), tid, "status_update", "respond")
       ELSE /\ pc' = [pc EXCEPT ![c] = "respond"]
            /\ bc' = bc
    /\ UNCHANGED <<active_connections, client_tracking_id, lock, path, chan, announced, left>>

\* A ping message: process_message answers pong and broadcasts nothing.
ws_receive_ping(c) ==
    /\ pc[c] = "loop"
    /\ chan[c] = "open"
    /\ received < MaxMessages
    /\ received' = received + 1
    /\ pc' = [pc EXCEPT ![c] = "respond"]
    /\ bc' = [bc EXCEPT ![c] = IdleBroadcast]
    /\ message' = [message EXCEPT ![c] = "ping"]
    /\ response' = [response EXCEPT ![c] = endpoint_response("ping", path[c], NoStatus)]
    /\ UNCHANGED <<active_connections, client_tracking_id, lock, path, chan, announced, left>>
    /\ UNCHANGED dvars

\* A message without a known type, or a text that is not JSON: the endpoint
\* answers with an error frame and broadcasts nothing.
ws_receive_malformed(c, kind) ==
    /\ pc[c] = "loop"
    /\ chan[c] = "open"
    /\ received < MaxMessages
    /\ received' = received + 1
    /\ pc' = [pc EXCEPT ![c] = "respond"]
    /\ bc' = [bc EXCEPT ![c] = IdleBroadcast]
    /\ message' = [message EXCEPT ![c] = kind]
    /\ response' = [response EXCEPT ![c] = endpoint_response(kind, path[c], NoStatus)]
    /\ UNCHANGED <<active_connections, client_tracking_id, lock, path, chan, announced, left>>
    /\ UNCHANGED dvars

\* websocket.send_json(response): when it raises, the handler of the inner
\* try sends an error frame, which raises again, and the outer handlers run
\* the cleanup.
ws_send_response(c) ==
    /\ pc[c] = "respond"
    /\ pc' = [pc EXCEPT ![c] = IF chan[c] = "open" THEN "loop" ELSE "cleanup"]
    /\ bc' = [bc EXCEPT ![c] = IdleBroadcast]
    /\ message' = [message EXCEPT ![c] = NoMessage]
    /\ response' = [response EXCEPT ![c] = NoResponse]
    /\ UNCHANGED <<active_connections, client_tracking_id, lock, path, chan, announced, left, received>>
    /\ UNCHANGED dvars

\* websocket.receive_text() raises WebSocketDisconnect on a closed channel.
ws_receive_disconnect(c) ==
    /\ pc[c] = "loop"
    /\ chan[c] = "closed"
    /\ pc' = [pc EXCEPT ![c] = "cleanup"]
    /\ bc' = [bc EXCEPT ![c] = IdleBroadcast]
    /\ UNCHANGED <<active_connections, client_tracking_id, lock, path, chan, announced, left, received>>
    /\ UNCHANGED <<message, response>>
    /\ UNCHANGED dvars

\* asyncio.TimeoutError after 30 seconds without a message: a ping is sent;
\* when the send raises, the loop is left by `break`.
ws_receive_timeout(c) ==
    /\ pc[c] = "loop"
    /\ chan[c] \in {"open", "broken"}
    /\ chan[c] = "open" => received < MaxMessages
    /\ pc' = [pc EXCEPT ![c] = IF chan[c] = "open" THEN "keepalive" ELSE "done"]
    /\ received' = IF chan[c] = "open" THEN received + 1 ELSE received
    /\ response' = [response EXCEPT ![c] = IF chan[c] = "open" THEN KeepaliveFrame ELSE NoResponse]
    /\ bc' = [bc EXCEPT ![c] = IdleBroadcast]
    /\ UNCHANGED <<active_connections, client_tracking_id, lock, path, chan, announced, left, message>>
    /\ UNCHANGED dvars

\* websocket.send_json of the ping: the loop goes on, or is left by `break`
\* when the channel has gone in the meantime.
ws_send_keepalive(c) ==
    /\ pc[c] = "keepalive"
    /\ pc' = [pc EXCEPT ![c] = IF chan[c] = "open" THEN "loop" ELSE "done"]
    /\ response' = [response EXCEPT ![c] = NoResponse]
    /\ UNCHANGED <<active_connections, client_tracking_id, lock, path, chan, bc, announced, left, received, message>>
    /\ UNCHANGED dvars

\* The handlers of WebSocketDisconnect and of Exception:
\* disconnect(client_id), then send_connection_info(tracking_id).
endpoint_cleanup(c) ==
    /\ pc[c] = "cleanup"
    /\ lock = NoHolder
    /\ LET ac == disconnect_active_connections(active_connections, client_tracking_id, c)
       IN  /\ active_connections' = ac
           /\ send_connection_info(c, ac, Members(path[c]) \ {c}, path[c], "done")
    /\ client_tracking_id' = disconnect_client_tracking_id(active_connections, client_tracking_id, c)
    /\ left' = left \cup {c}
    /\ UNCHANGED <<lock, path, chan, received>>
    /\ UNCHANGED <<message, response>>
    /\ UNCHANGED dvars

\* The client closes its channel, or the channel breaks without a close.
client_close(c) ==
    /\ chan[c] = "open"
    /\ chan' = [chan EXCEPT ![c] = "closed"]
    /\ UNCHANGED <<active_connections, client_tracking_id, lock, pc, path, bc, announced, left, received>>
    /\ UNCHANGED <<message, response>>
    /\ UNCHANGED dvars

client_break(c) ==
    /\ chan[c] = "open"
    /\ chan' = [chan EXCEPT ![c] = "broken"]
    /\ UNCHANGED <<active_connections, client_tracking_id, lock, pc, path, bc, announced, left, received>>
    /\ UNCHANGED <<message, response>>
    /\ UNCHANGED dvars

\* The registry after ConnectionManagerWebsocket() at import, no connection yet
InitRegistry ==
    /\ active_connections = << >>
    /\ client_tracking_id = << >>
    /\ lock = NoHolder
    /\ pc = [c \in Clients |-> "idle"]
    /\ path = [c \in Clients |-> "T1"]
    /\ chan = [c \in Clients |-> "none"]
    /\ bc = [c \in Clients |-> IdleBroadcast]
    /\ announced = [t \in TrackingIds |-> 0]
    /\ left = {}
    /\ received = 0
    /\ message = [c \in Clients |-> NoMessage]
    /\ response = [c \in Clients |-> NoResponse]

\* ------------------------------------------------------------------------
\* TrackingIDGenerator: the module-level generator and the threads calling it
\* ------------------------------------------------------------------------
MaxSecond == 1
MaxMicrosecond == 1
MaxCalls == 3
MaxThreads == 2

Threads == 1..MaxThreads
NoThread == 0
DefaultLength == 10
Lengths == {8, DefaultLength}
RandomParts == {"AA", "AB"}
NoId == <<"", 0, "">>
\* the number of values of six hexadecimal digits
HASH_PREFIX_VALUES == 16777216

\* wall is the reading of datetime.now(), the naive local wall clock:
\* [second, microsecond]. generated, last_id and calls record what the calls
\* have returned.
VARIABLES wall, _counter, _last_microsecond, _lock, tpc, generated, last_id,
          calls

gvars == <<wall, _counter, _last_microsecond, _lock, tpc, generated, last_id,
           calls>>

\* timestamp_str: strftime('%Y%m%d%H%M%S'), microsecond:06d and counter:04d
\* are fields of fixed width, so the string is one reading and one counter.
timestamp_str(reading, counter) == <<reading.second, reading.microsecond, counter>>

\* hashlib.md5(timestamp_str).hexdigest()[:6].upper(): a function of
\* timestamp_str alone whose value is one of the 16^6 prefixes, while
\* timestamp_str ranges over unboundedly many strings. The digest is not
\* computed here; the prefix is a reduction of the string onto those values,
\* which tells apart the few strings of a bounded run.
timestamp_part(ts) ==
    (ts[1] * (MaxMicrosecond + 1) * (MaxCalls + 1)
       + ts[2] * (MaxCalls + 1) + ts[3]) % HASH_PREFIX_VALUES

\* the counter after the test of the microsecond field
next_counter(counter, last_microsecond, reading) ==
    IF reading.microsecond # last_microsecond THEN 0 ELSE counter + 1

\* company_part + timestamp_part + random_part, cut to length
tracking_id(reading, counter, length, random_part) ==
    LET remaining == length - 2 - 6 IN
    <<"TR", timestamp_part(timestamp_str(reading, counter)),
      IF remaining > 0 THEN random_part ELSE "">>

\* with self._lock: a thread enters the body only while no thread is in it
generator_acquire(th) ==
    /\ tpc[th] = "idle"
    /\ _lock = NoThread
    /\ calls < MaxCalls
    /\ _lock' = th
    /\ tpc' = [tpc EXCEPT ![th] = "locked"]
    /\ UNCHANGED <<wall, _counter, _last_microsecond, generated, last_id, calls>>

\* the body of generate_secure_tracking_id and the release of the lock
generate_secure_tracking_id(th, length, random_part) ==
    LET counter == next_counter(_counter, _last_microsecond, wall)
        result == tracking_id(wall, counter, length, random_part)
    IN  /\ tpc[th] = "locked"
        /\ _lock = th
        /\ _counter' = counter
        /\ _last_microsecond' = wall.microsecond
        /\ last_id' = result
        /\ generated' = generated \cup {result}
        /\ calls' = calls + 1
        /\ _lock' = NoThread
        /\ tpc' = [tpc EXCEPT ![th] = "idle"]
        /\ UNCHANGED wall

\* time passes: the next microsecond, or some microsecond of the next second
clock_advance ==
    /\ \/ /\ wall.microsecond < MaxMicrosecond
          /\ wall' = [wall EXCEPT !.microsecond = @ + 1]
       \/ /\ wall.second < MaxSecond
          /\ \E m \in 0..MaxMicrosecond : wall' = [second |-> wall.second + 1, microsecond |-> m]
    /\ UNCHANGED <<_counter, _last_microsecond, _lock, tpc, generated, last_id, calls>>

\* the local wall clock is set back (clock synchronisation, end of daylight
\* saving time): datetime.now() reads an earlier time again
clock_set_back ==
    /\ \E sec \in 0..MaxSecond, m \in 0..MaxMicrosecond :
          /\ sec < wall.second \/ (sec = wall.second /\ m < wall.microsecond)
          /\ wall' = [second |-> sec, microsecond |-> m]
    /\ UNCHANGED <<_counter, _last_microsecond, _lock, tpc, generated, last_id, calls>>

InitGenerator ==
    /\ wall = [second |-> 0, microsecond |-> 0]
    /\ _counter = 0
    /\ _last_microsecond = 0
    /\ _lock = NoThread
    /\ tpc = [th \in Threads |-> "idle"]
    /\ generated = {}
    /\ last_id = NoId
    /\ calls = 0


\* ------------------------------------------------------------------------
\* The specification of the delivery record and the OTP engines
\* ------------------------------------------------------------------------
\* issued remembers, for each key, the code last given out: to the phone
\* number by OTPService.store_otp (and the outstanding code it replaced), to
\* the tracking id by AuthService.store_otp, and to the rider of a tracking id
\* by the notification of create_delivery or resend_notifications.
VARIABLE issued

OtpOutstanding(row, t) == row.exists /\ ~row.is_used /\ row.expires_at > t

InitIssued ==
    issued = [phone |-> NoCode, replaced |-> NoCode,
              auth |-> [t \in TrackingIds |-> NoCode],
              rider |-> [t \in TrackingIds |-> NoCode]]


\* ------------------------------------------------------------------------
\* Requests in flight. Every call of DatabaseOperatorUtil opens, commits and
\* closes a session of its own, so a handler that reads a row and then
\* writes it runs two transactions, and the repository serves the
\* transactions of other requests between the two.
\* ------------------------------------------------------------------------
MaxRequests == 2
Requests == 1 .. MaxRequests

StatusHandlers == {"confirm_delivery", "cancel_delivery"}
LocationHandlers == {"update_location", "process_location_update"}
RequestArgs(handler) ==
    IF handler \in LocationHandlers THEN Points
    ELSE IF handler = "verify_otp" THEN OtpCodes
    ELSE {"none"}

\* inflight[r]: the handler serving request r and its argument, where the
\* handler stands, what its find_one returned, and its answer.
VARIABLE inflight

NoRequest ==
    [handler |-> "none", arg |-> "none", pc |-> "idle",
     delivery |-> EmptyDict, otp_result |-> NoOtpRow, code |-> "none"]

InitRequests == inflight = [r \in Requests |-> NoRequest]

NoRequestYet == \A r \in Requests : inflight[r].pc = "idle"

Answered(q, code) == [q EXCEPT !.pc = "done", !.code = code]

\* The handler up to its write: the find_one and the tests on the row it
\* returned.
handler_find(q, d, row, t) ==
    IF q.handler = "verify_otp"
    THEN IF OTPService_verify_otp_found(row, q.arg, t)
         THEN [q EXCEPT !.otp_result = row, !.pc = "update"]
         ELSE Answered(q, "False")
    ELSE LET delivery == find_one(d, "T1") IN
         IF ~delivery.exists
         THEN Answered(q, "404")
         ELSE IF q.handler = "confirm_delivery" /\ delivery.status # "in_progress"
         THEN Answered(q, "400")
         ELSE IF q.handler = "cancel_delivery" /\ delivery.status \in {"completed", "cancelled"}
         THEN Answered(q, "400")
         ELSE IF q.handler = "update_location" /\ ~delivery.tracking.active
         THEN Answered(q, "400")
         ELSE [q EXCEPT !.delivery = delivery, !.pc = "update"]

\* The write of a status route: update filtered on the tracking id alone.
handler_update_status(q, d) ==
    IF q.handler = "confirm_delivery"
    THEN process_delivery_confirmation_db(
             update(d, "T1", [status |-> "completed", is_tracking_active |-> FALSE]), "T1")
    ELSE update(d, "T1", [status |-> "cancelled", is_tracking_active |-> FALSE])

\* The write of a location handler: the history it read with its point
\* appended.
handler_update_location(q, d) ==
    LET location_history == Append(q.delivery.location_history, q.arg) IN
    IF q.handler = "update_location"
    THEN update(d, "T1", [rider_current_location |-> json_dumps(q.arg),
                          location_history |-> json_dumps(location_history)])
    ELSE update(d, "T1", [rider_current_location |-> py_object(q.arg),
                          location_history |-> py_object(location_history)])

request_arrive(r, handler, arg) ==
    /\ inflight[r].pc = "idle"
    /\ \A q \in Requests : q < r => inflight[q].pc # "idle"
    /\ inflight' = [inflight EXCEPT ![r] =
                       [NoRequest EXCEPT !.handler = handler, !.arg = arg, !.pc = "find"]]
    /\ UNCHANGED dvars

request_find(r) ==
    /\ inflight[r].pc = "find"
    /\ inflight' = [inflight EXCEPT ![r] = handler_find(inflight[r], db, otps, now)]
    /\ UNCHANGED dvars

\* RiderRouter.update_location hands its point to
\* EventsWebsocket.process_location_update after its own write.
request_update(r) ==
    LET q == inflight[r] IN
    /\ q.pc = "update"
    /\ q.handler \in LocationHandlers => Len(q.delivery.location_history) < MaxHistory
    /\ db' = IF q.handler \in StatusHandlers THEN handler_update_status(q, db)
             ELSE IF q.handler \in LocationHandlers THEN handler_update_location(q, db)
             ELSE db
    /\ otps' = IF q.handler = "verify_otp" THEN [otps EXCEPT !.is_used = TRUE] ELSE otps
    /\ broadcasts' = IF q.handler = "confirm_delivery"
                     THEN process_delivery_confirmation_bc({}, "T1")
                     ELSE IF q.handler = "process_location_update"
                     THEN process_location_update_bc(db, {}, "T1")
                     ELSE {}
    /\ inflight' = [inflight EXCEPT ![r] =
                       IF q.handler = "update_location"
                       THEN [q EXCEPT !.handler = "process_location_update", !.pc = "find"]
                       ELSE Answered(q, IF q.handler = "verify_otp" THEN "True" ELSE "200")]
    /\ lastOp' = Op(q.handler, "T1", "200", q.arg)
    /\ UNCHANGED <<location_updates, redis, auth_initialised, now, otp_used>>

Init ==
    /\ db = [t \in TrackingIds |-> EmptyDict]
    /\ location_updates = << >>
    /\ redis = [t \in TrackingIds |-> NoKey]
    /\ auth_initialised = FALSE
    /\ otps = NoOtpRow
    /\ now = 0
    /\ otp_used = {}
    /\ InitRegistry
    /\ InitGenerator
    /\ InitIssued
    /\ InitRequests
    /\ broadcasts = {}
    /\ lastOp = Op("init", "T1", "none", "none")

Next ==
    \/ Tick(RIDER_OTP_EXPIRY_MINUTES)
          /\ UNCHANGED <<rvars, gvars, issued, inflight>>
    \/ \E tid \in TrackingIds, s \in valid_statuses \cup {"bogus"} : ws_status_update(tid, s)
          /\ UNCHANGED <<rvars, gvars, issued, inflight>>
    \/ \E tid \in TrackingIds : ws_delivery_confirmation(tid)
          /\ UNCHANGED <<rvars, gvars, issued, inflight>>
    \/ \E tid \in TrackingIds, p \in Points : ws_location_update(tid, p)
          /\ UNCHANGED <<rvars, gvars, issued, inflight>>
    \/ \E tid \in TrackingIds, c \in OtpCodes : rider_verify_otp(tid, c)
          /\ UNCHANGED <<rvars, gvars, issued, inflight>>
    \/ \E tid \in TrackingIds : rider_accept_delivery(tid)
          /\ UNCHANGED <<rvars, gvars, issued, inflight>>
    \/ \E tid \in TrackingIds : rider_decline_delivery(tid)
          /\ UNCHANGED <<rvars, gvars, issued, inflight>>
    \/ \E tid \in TrackingIds : rider_start_tracking(tid)
          /\ UNCHANGED <<rvars, gvars, issued, inflight>>
    \/ \E tid \in TrackingIds : rider_complete_delivery(tid)
          /\ UNCHANGED <<rvars, gvars, issued, inflight>>
    \/ \E tid \in TrackingIds, p \in Points : rider_update_location(tid, p)
          /\ UNCHANGED <<rvars, gvars, issued, inflight>>
    \/ \E tid \in TrackingIds : customer_confirm_delivery(tid)
          /\ UNCHANGED <<rvars, gvars, issued, inflight>>
    \/ \E tid \in TrackingIds : vendor_cancel_delivery(tid)
          /\ UNCHANGED <<rvars, gvars, issued, inflight>>
    \/ \E tid \in GeneratedIds, c \in OtpCodes : vendor_create_delivery(tid, c)
          /\ UNCHANGED <<rvars, gvars, issued, inflight>>
    \/ \E tid \in TrackingIds, c \in OtpCodes : vendor_resend_notifications(tid, c)
          /\ UNCHANGED <<rvars, gvars, issued, inflight>>
    \/ \E tid \in TrackingIds : vendor_get_delivery_by_tracking(tid)
          /\ UNCHANGED <<rvars, gvars, issued, inflight>>
    \/ \E tid \in TrackingIds : public_get_delivery_by_tracking(tid)
          /\ UNCHANGED <<rvars, gvars, issued, inflight>>
    \/ \E tid \in TrackingIds : vendor_notify_customer(tid)
          /\ UNCHANGED <<rvars, gvars, issued, inflight>>
    \/ \E tid \in TrackingIds : customer_get_public_delivery(tid)
          /\ UNCHANGED <<rvars, gvars, issued, inflight>>

vars == <<dvars, rvars, gvars, issued, inflight>>

Spec == Init /\ [][Next]_vars

\* DeliveryService over the same table: deliveries are created by the vendor
\* route and moved between statuses by the live channel.
NextService ==
    \/ \E tid \in GeneratedIds, c \in OtpCodes : vendor_create_delivery(tid, c)
          /\ UNCHANGED <<rvars, gvars, issued, inflight>>
    \/ \E tid \in TrackingIds, s \in valid_statuses : ws_status_update(tid, s)
          /\ UNCHANGED <<rvars, gvars, issued, inflight>>
    \/ AuthService_init
          /\ UNCHANGED <<rvars, gvars, issued, inflight>>
    \/ \E tid \in TrackingIds, s \in DeliveryStatusModel :
          DeliveryService_update_delivery_status(tid, s)
          /\ UNCHANGED <<rvars, gvars, issued, inflight>>
    \/ \E tid \in TrackingIds, c \in OtpCodes : DeliveryService_verify_driver_otp(tid, c)
          /\ UNCHANGED <<rvars, gvars, issued, inflight>>
    \/ \E tid \in TrackingIds, p \in Points : DeliveryService_add_location_update(tid, p)
          /\ UNCHANGED <<rvars, gvars, issued, inflight>>

SpecService == Init /\ [][NextService]_vars

\* The OTP engines alone: AuthService, OTPService and the OTP of the delivery
\* row
NextOtp ==
    \/ Tick(RIDER_OTP_EXPIRY_MINUTES)
          /\ UNCHANGED <<rvars, gvars, issued, inflight>>
    \/ AuthService_init
          /\ UNCHANGED <<rvars, gvars, issued, inflight>>
    \/ \E tid \in TrackingIds, c \in OtpCodes : AuthService_store_otp(tid, c)
          /\ issued' = (IF lastOp'.code = "ok"
                        THEN [issued EXCEPT !.auth[tid] = c]
                        ELSE issued)
          /\ UNCHANGED <<rvars, gvars, inflight>>
    \/ \E tid \in TrackingIds, c \in OtpCodes : AuthService_verify_otp(tid, c)
          /\ UNCHANGED <<rvars, gvars, issued, inflight>>
    \/ \E c \in OtpCodes : OTPService_store_otp(c)
          /\ issued' = [issued EXCEPT
                          !.phone = c,
                          !.replaced = IF OtpOutstanding(otps, now) /\ otps.code # c
                                       THEN otps.code
                                       ELSE NoCode]
          /\ UNCHANGED <<rvars, gvars, inflight>>
    \/ \E c \in OtpCodes : OTPService_verify_otp(c)
          /\ UNCHANGED <<rvars, gvars, issued, inflight>>
    \/ \E tid \in GeneratedIds, c \in OtpCodes : vendor_create_delivery(tid, c)
          /\ issued' = [issued EXCEPT !.rider[tid] = db'[tid].otp]
          /\ UNCHANGED <<rvars, gvars, inflight>>
    \/ \E tid \in GeneratedIds, c \in OtpCodes : vendor_resend_notifications(tid, c)
          /\ issued' = (IF lastOp'.code = "200"
                        THEN [issued EXCEPT !.rider[tid] = db'[tid].otp]
                        ELSE issued)
          /\ UNCHANGED <<rvars, gvars, inflight>>
    \/ \E tid \in GeneratedIds, c \in OtpCodes : rider_verify_otp(tid, c)
          /\ UNCHANGED <<rvars, gvars, issued, inflight>>

SpecOtp == Init /\ [][NextOtp]_vars

\* The live connections alone: the table of deliveries stays empty
NextRegistry ==
    \/ \E c \in Clients : \E tid \in ConnectionPaths(c) : endpoint_connect(c, tid)
          /\ UNCHANGED <<gvars, issued, inflight>>
    \/ \E c \in Clients : connect_sent(c)
          /\ UNCHANGED <<gvars, issued, inflight>>
    \/ \E c \in Clients : broadcast_send(c)
          /\ UNCHANGED <<gvars, issued, inflight>>
    \/ \E c \in Clients, tid \in TrackingIds : ws_receive_status_update(c, tid, "in_progress")
          /\ UNCHANGED <<gvars, issued, inflight>>
    \/ \E c \in Clients : ws_receive_ping(c)
          /\ UNCHANGED <<gvars, issued, inflight>>
    \/ \E c \in Clients, kind \in MalformedMessages : ws_receive_malformed(c, kind)
          /\ UNCHANGED <<gvars, issued, inflight>>
    \/ \E c \in Clients : ws_send_keepalive(c)
          /\ UNCHANGED <<gvars, issued, inflight>>
    \/ \E c \in Clients : ws_send_response(c)
          /\ UNCHANGED <<gvars, issued, inflight>>
    \/ \E c \in Clients : ws_receive_disconnect(c)
          /\ UNCHANGED <<gvars, issued, inflight>>
    \/ \E c \in Clients : ws_receive_timeout(c)
          /\ UNCHANGED <<gvars, issued, inflight>>
    \/ \E c \in Clients : endpoint_cleanup(c)
          /\ UNCHANGED <<gvars, issued, inflight>>
    \/ \E c \in Clients : client_close(c)
          /\ UNCHANGED <<gvars, issued, inflight>>
    \/ \E c \in Clients : client_break(c)
          /\ UNCHANGED <<gvars, issued, inflight>>

SpecRegistry == Init /\ [][NextRegistry]_vars

\* Joining and leaving alone, with no message and no idle timeout on the
\* channels. The event loop runs every task that is ready, a send that is
\* awaited returns or raises, and asyncio.Lock wakes its waiters in turn.
NextJoinLeave ==
    \/ \E c \in Clients : \E tid \in ConnectionPaths(c) : endpoint_connect(c, tid)
          /\ UNCHANGED <<gvars, issued, inflight>>
    \/ \E c \in Clients : connect_sent(c)
          /\ UNCHANGED <<gvars, issued, inflight>>
    \/ \E c \in Clients : broadcast_send(c)
          /\ UNCHANGED <<gvars, issued, inflight>>
    \/ \E c \in Clients : ws_receive_disconnect(c)
          /\ UNCHANGED <<gvars, issued, inflight>>
    \/ \E c \in Clients : endpoint_cleanup(c)
          /\ UNCHANGED <<gvars, issued, inflight>>
    \/ \E c \in Clients : client_close(c)
          /\ UNCHANGED <<gvars, issued, inflight>>
    \/ \E c \in Clients : client_break(c)
          /\ UNCHANGED <<gvars, issued, inflight>>

FairJoinLeave ==
    \A c \in Clients :
       /\ WF_vars(connect_sent(c) /\ UNCHANGED <<gvars, issued, inflight>>)
       /\ WF_vars(broadcast_send(c) /\ UNCHANGED <<gvars, issued, inflight>>)
       /\ WF_vars(ws_receive_disconnect(c) /\ UNCHANGED <<gvars, issued, inflight>>)
       /\ WF_vars(endpoint_cleanup(c) /\ UNCHANGED <<gvars, issued, inflight>>)

SpecJoinLeave == Init /\ [][NextJoinLeave]_vars /\ FairJoinLeave

\* The generator alone, called from several threads
NextGenerator ==
    \/ \E th \in Threads : generator_acquire(th)
          /\ UNCHANGED <<dvars, rvars, issued, inflight>>
    \/ \E th \in Threads, length \in Lengths, r \in RandomParts :
          generate_secure_tracking_id(th, length, r)
          /\ UNCHANGED <<dvars, rvars, issued, inflight>>
    \/ clock_advance
          /\ UNCHANGED <<dvars, rvars, issued, inflight>>
    \/ clock_set_back
          /\ UNCHANGED <<dvars, rvars, issued, inflight>>

SpecGenerator == Init /\ [][NextGenerator]_vars

\* Two requests at a time against one delivery and one OTP row, each served
\* one repository call at a time.
NextRace ==
    \/ \E c \in OtpCodes : NoRequestYet /\ vendor_create_delivery("T1", c)
          /\ UNCHANGED <<rvars, gvars, issued, inflight>>
    \/ \E c \in OtpCodes : NoRequestYet /\ rider_verify_otp("T1", c)
          /\ UNCHANGED <<rvars, gvars, issued, inflight>>
    \/ NoRequestYet /\ rider_start_tracking("T1")
          /\ UNCHANGED <<rvars, gvars, issued, inflight>>
    \/ \E c \in OtpCodes : NoRequestYet /\ OTPService_store_otp(c)
          /\ UNCHANGED <<rvars, gvars, issued, inflight>>
    \/ \E r \in Requests, handler \in StatusHandlers \cup LocationHandlers \cup {"verify_otp"} :
          \E arg \in RequestArgs(handler) : request_arrive(r, handler, arg)
          /\ UNCHANGED <<rvars, gvars, issued>>
    \/ \E r \in Requests : request_find(r)
          /\ UNCHANGED <<rvars, gvars, issued>>
    \/ \E r \in Requests : request_update(r)
          /\ UNCHANGED <<rvars, gvars, issued>>

SpecRace == Init /\ [][NextRace]_vars

\* ------------------------------------------------------------------------
\* Properties of the delivery record
\* ------------------------------------------------------------------------
\* The status graph of the specification, in its vocabulary.
Canonical(s) ==
    CASE s = "in_progress" -> "in_transit"
      [] s = "completed"   -> "delivered"
      [] OTHER -> s

AllowedEdges ==
    {<<"created", "assigned">>, <<"created", "cancelled">>,
     <<"assigned", "accepted">>, <<"assigned", "cancelled">>,
     <<"accepted", "in_transit">>, <<"accepted", "cancelled">>,
     <<"in_transit", "delivered">>, <<"in_transit", "cancelled">>}

LocationOps == {"ws_location_update", "rider_update_location", "add_location_update"}

\* C1: every change of a delivery's status follows an allowed edge; in
\* particular a delivered (completed) or cancelled delivery keeps its status.
C1_StatusFollowsEdges ==
    [][\A tid \in TrackingIds :
          (db[tid].exists /\ db'[tid].exists /\ db'[tid].status # db[tid].status)
             => <<Canonical(db[tid].status), Canonical(db'[tid].status)>> \in AllowedEdges]_dvars

\* C2: the live-tracking flag is true only while the status is in transit.
C2_FlagOnlyInTransit ==
    \A tid \in TrackingIds :
        (db[tid].exists /\ db[tid].is_tracking_active)
           => Canonical(db[tid].status) = "in_transit"

\* C3: a location update for a delivery whose live-tracking flag is false is
\* rejected and changes neither the current location nor the history.
C3_InactiveLocationRejected ==
    [][\A tid \in TrackingIds :
          (/\ lastOp'.op \in LocationOps
           /\ lastOp'.tid = tid
           /\ db[tid].exists
           /\ ~db[tid].is_tracking_active)
             => /\ lastOp'.code \notin {"ok", "200"}
                /\ db'[tid].location_history = db[tid].location_history
                /\ db'[tid].rider_current_location = db[tid].rider_current_location]_dvars

\* C4: at POST /rider/verify-otp a verification succeeds exactly when the code
\* is the issued one, is unexpired and has not verified before since its issue.
C4_RiderOtpVerifiesOnce ==
    [][\A tid \in TrackingIds :
          (lastOp'.op = "rider_verify_otp" /\ lastOp'.tid = tid /\ db[tid].exists)
             => (lastOp'.code = "200"
                   <=> /\ lastOp'.detail = db[tid].otp
                       /\ now <= db[tid].otp_expiry
                       /\ tid \notin otp_used)]_dvars

\* C5: update_delivery_status(T, B) on a delivery in status A succeeds, stores
\* B and stamps the stage timestamp when (A, B) is an allowed edge, and fails
\* as an invalid transition without changing the delivery otherwise.
C5_TransitionFunction ==
    [][\A tid \in TrackingIds :
          (/\ lastOp'.op = "update_delivery_status"
           /\ lastOp'.tid = tid
           /\ db[tid].exists)
             => IF <<Canonical(db[tid].status), lastOp'.detail>> \in AllowedEdges
                THEN /\ lastOp'.code = "200"
                     /\ db'[tid].status = lastOp'.detail
                     /\ db'[tid][StageTimestamp(lastOp'.detail)] # NoTime
                ELSE /\ lastOp'.code = "400"
                     /\ db'[tid] = db[tid]]_dvars

Registered(c) ==
    \/ c \in DOMAIN client_tracking_id
    \/ \E T \in DOMAIN active_connections : c \in Range(active_connections[T])

\* The broadcast task k ran last has returned
BroadcastReturned(k) == bc[k].type # "none" /\ pc[k] # "broadcast"

\* No endpoint task stands between a step and the announcement that follows it
Quiescent ==
    /\ lock = NoHolder
    /\ \A c \in Clients : \/ pc[c] \in {"idle", "done"}
                          \/ pc[c] = "loop" /\ chan[c] = "open"

\* C6: the count of a group is the number of clients that joined it and were
\* not removed, and a broadcast to the group is sent to exactly the clients
\* that were its members when it started, every one of them receiving it
\* unless its own channel is dead.
C6_CountAndBroadcastMembership ==
    /\ \A T \in TrackingIds :
          get_connections_count(active_connections, T) = Cardinality(Members(T))
    /\ \A k \in Clients :
          bc[k].type # "none" =>
             /\ bc[k].sent \cup bc[k].failed \cup Range(bc[k].queue) = bc[k].members
             /\ bc[k].sent \cap bc[k].failed = {}
             /\ \A c \in bc[k].failed : chan[c] # "open"
             /\ BroadcastReturned(k) => bc[k].sent = bc[k].members \ bc[k].failed

\* Three clients joined "T1", one of them has disconnected, and the broadcast
\* that followed its disconnect has been received by the two that remain,
\* which the count reports.
C6_Witness ==
    /\ Cardinality({c \in Clients : pc[c] # "idle" /\ path[c] = "T1"}) = 3
    /\ get_connections_count(active_connections, "T1") = 2
    /\ \E k \in Clients :
          /\ BroadcastReturned(k)
          /\ k \in left
          /\ bc[k].tid = "T1"
          /\ bc[k].members = Members("T1")
          /\ bc[k].sent = Members("T1")
          /\ Cardinality(bc[k].sent) = 2

\* C7: a member a broadcast failed to send to is removed from the registry,
\* and when the broadcast returns every other member of the group at its
\* start has been sent the message.
C7_FailedSendRemovesAndContinues ==
    \A k \in Clients :
        bc[k].type # "none" =>
           /\ \A c \in bc[k].failed : ~Registered(c)
           /\ BroadcastReturned(k) => \A c \in bc[k].members \ bc[k].failed : c \in bc[k].sent

\* A broadcast has returned in which a send failed and a member placed after
\* the failed one in the group was still sent the message.
C7_Witness ==
    \E k \in Clients :
        /\ BroadcastReturned(k)
        /\ \E f \in bc[k].failed, c \in bc[k].sent : f < c

\* C8: a connection whose loop has ended is no longer in the registry.
C8_LoopEndUnregisters ==
    \A c \in Clients : pc[c] = "done" => ~Registered(c)

\* C9: once every membership change has been followed through, the last
\* connections_info frame of each group that has members carries its count.
C9_MembershipChangeAnnounced ==
    Quiescent =>
        \A T \in DOMAIN active_connections :
            announced[T] = get_connections_count(active_connections, T)

\* ------------------------------------------------------------------------
\* Properties of delivery creation and of the stored OTP
\* ------------------------------------------------------------------------
\* C11: a successful create stores a new delivery under a tracking id that no
\* delivery had before, and what it returns is that new delivery.
C11_CreateNeverReusesId ==
    [][lastOp'.op = "vendor_create_delivery" /\ lastOp'.code = "200"
          => /\ ~db[lastOp'.tid].exists
             /\ db'[lastOp'.tid].exists
             /\ db'[lastOp'.tid].otp = lastOp'.detail]_dvars

\* C13: no delivery record holds the rider OTP in plaintext.
C13_NoPlaintextOtpAtRest ==
    \A tid \in TrackingIds : db[tid].exists => db[tid].otp \notin OtpCodes

\* C14: with the OTP storage backend unavailable, AuthService.store_otp never
\* reports success for a code that was not stored.
C14_StoreFailsClosed ==
    [][lastOp'.op = "AuthService_store_otp" /\ lastOp'.code = "ok"
          => redis'[lastOp'.tid] # NoKey]_dvars

\* C12: no call of generate_secure_tracking_id returns an id that an earlier
\* call on the same generator returned.
C12_NoDuplicateIds ==
    [][calls' = calls + 1 => last_id' \notin generated]_gvars

\* ------------------------------------------------------------------------
\* Properties of the validity and the replacement of OTPs
\* ------------------------------------------------------------------------
\* C15: once the validity period of an issued OTP has elapsed, no verification
\* succeeds, the correct code included: OTPService after expires_at, the rider
\* endpoint after otp_expiry, AuthService once the key is gone from Redis.
C15_ExpiredOtpFails ==
    [][/\ (lastOp'.op = "OTPService_verify_otp" /\ otps.exists /\ now > otps.expires_at)
            => lastOp'.code = "error"
       /\ (lastOp'.op = "rider_verify_otp" /\ db[lastOp'.tid].exists
              /\ now > db[lastOp'.tid].otp_expiry)
            => lastOp'.code # "200"
       /\ (lastOp'.op = "AuthService_verify_otp" /\ redis[lastOp'.tid] = NoKey)
            => lastOp'.code = "error"]_vars

\* the correct, never used code of the phone number was refused after its
\* expires_at
C15_Witness ==
    /\ lastOp.op = "OTPService_verify_otp"
    /\ lastOp.code = "error"
    /\ otps.exists
    /\ lastOp.detail = otps.code
    /\ ~otps.is_used
    /\ now > otps.expires_at

\* C16: a verification succeeds only with the code last issued for its key;
\* a code that a newer one replaced no longer verifies.
C16_OnlyNewestVerifies ==
    [][/\ (lastOp'.op = "OTPService_verify_otp" /\ lastOp'.code = "ok")
            => lastOp'.detail = issued.phone
       /\ (lastOp'.op = "AuthService_verify_otp" /\ lastOp'.code = "ok")
            => lastOp'.detail = issued.auth[lastOp'.tid]
       /\ (lastOp'.op = "rider_verify_otp" /\ lastOp'.code = "200")
            => lastOp'.detail = issued.rider[lastOp'.tid]]_vars

\* the code that was outstanding when a newer one was issued has been refused
\* while the newer one is still valid
C16_Witness ==
    /\ lastOp.op = "OTPService_verify_otp"
    /\ lastOp.code = "error"
    /\ issued.replaced # NoCode
    /\ lastOp.detail = issued.replaced
    /\ OtpOutstanding(otps, now)
    /\ otps.code = issued.phone
    /\ otps.code # issued.replaced

\* ------------------------------------------------------------------------
\* Properties of the messages of the live channel
\* ------------------------------------------------------------------------
\* C17: a live-channel status_update that names no delivery, or whose status
\* is not an allowed edge from the delivery's status, is answered with an
\* error, leaves the table as it was and broadcasts nothing.
C17_InvalidStatusUpdateRejected ==
    [][\A tid \in TrackingIds :
          (/\ lastOp'.op = "ws_status_update"
           /\ lastOp'.tid = tid
           /\ IF db[tid].exists
              THEN <<Canonical(db[tid].status), Canonical(lastOp'.detail)>> \notin AllowedEdges
              ELSE TRUE)
             => /\ lastOp'.code = "error"
                /\ broadcasts' = {}
                /\ db' = db]_dvars

\* C18: a message with an unknown type, with no type, or that is not JSON is
\* answered with an error frame to its sender alone: receiving it starts no
\* broadcast and changes neither the table of deliveries nor the registry,
\* and once the answer is sent on an open channel the connection is still
\* registered and back in its loop.
C18_MalformedAnsweredToSenderOnly ==
    [][\A c \in Clients :
          /\ (message[c] = NoMessage /\ message'[c] \in MalformedMessages)
                => /\ pc'[c] = "respond"
                   /\ response'[c].error # NoField
                   /\ response'[c] # NoResponse
                   /\ bc'[c] = IdleBroadcast
                   /\ db' = db
                   /\ broadcasts' = broadcasts
                   /\ active_connections' = active_connections
                   /\ client_tracking_id' = client_tracking_id
          /\ (message[c] \in MalformedMessages /\ message'[c] = NoMessage /\ chan[c] = "open")
                => /\ pc'[c] = "loop"
                   /\ c \in DOMAIN client_tracking_id'
                   /\ c \in Range(active_connections'[path[c]])]_vars

\* the error answer to a malformed message is on its way to the sender, and
\* the other member of the group, in its loop, is sent nothing
C18_Witness ==
    \E c, d \in Clients :
       /\ c # d
       /\ pc[c] = "respond"
       /\ message[c] \in MalformedMessages
       /\ response[c] = ErrorFrame
       /\ chan[c] = "open"
       /\ bc[c] = IdleBroadcast
       /\ {c, d} \subseteq Range(active_connections[path[c]])
       /\ pc[d] = "loop"

OutboundTypes ==
    {"connection_status", "connections_info", "location_update", "status_update",
     "delivery_confirmation", "pong", "error"}

\* C19: every frame the server sends on a live channel has a type out of
\* connection_status, connections_info, location_update, status_update,
\* delivery_confirmation, pong, error, and carries the tracking_id.
C19_OutboundFramesWellFormed ==
    [][\A c \in Clients :
          /\ (pc[c] \in {"respond", "keepalive"} /\ pc'[c] = "loop")
                => /\ response[c].type \in OutboundTypes
                   /\ response[c].tracking_id \in TrackingIds
          /\ bc'[c].sent # bc[c].sent /\ bc'[c].sent # {}
                => bc[c].type \in OutboundTypes /\ bc[c].tid \in TrackingIds]_vars

\* ------------------------------------------------------------------------
\* Properties of the answers to an unknown tracking id
\* ------------------------------------------------------------------------
LookupOps ==
    {"public_get_delivery_by_tracking", "customer_get_public_delivery",
     "vendor_get_delivery_by_tracking", "vendor_resend_notifications",
     "vendor_notify_customer"}

\* C20: the public fetch, the vendor fetch, resend-notifications and
\* notify-customer answer 404 when the tracking id names no delivery.
C20_UnknownTrackingIdIs404 ==
    [][(lastOp'.op \in LookupOps /\ ~db[lastOp'.tid].exists)
          => lastOp'.code = "404"]_dvars

\* ------------------------------------------------------------------------
\* Properties of what a failed verification tells its caller
\* ------------------------------------------------------------------------
\* C21: in every state, two rider OTP verifications of the same delivery that
\* both fail get the same answer, whether the code is wrong or has expired.
C21_FailedVerificationsAlike ==
    \A tid \in TrackingIds : \A c1, c2 \in OtpCodes :
       LET a1 == rider_verify_otp_response(db, tid, c1, now)
           a2 == rider_verify_otp_response(db, tid, c2, now)
       IN  (db[tid].exists /\ a1[1] # "200" /\ a2[1] # "200") => a1 = a2

C23_AtMostOneTransitionApplied ==
    \A r1, r2 \in Requests :
       (/\ inflight[r1].handler # inflight[r2].handler
        /\ inflight[r1].handler \in StatusHandlers
        /\ inflight[r2].handler \in StatusHandlers
        /\ inflight[r1].pc = "done"
        /\ inflight[r2].pc = "done"
        /\ inflight[r1].delivery.exists
        /\ inflight[r2].delivery.exists
        /\ inflight[r1].delivery.status = inflight[r2].delivery.status)
       => ~(inflight[r1].code = "200" /\ inflight[r2].code = "200")

\* C24: registry mutations and the iteration of a broadcast exclude each
\* other: while a task is in the middle of the loop of broadcast, no step of
\* another task (a connect, a disconnect, a removal after a failed send)
\* changes the registry.
C24_BroadcastExcludesMutation ==
    [][\A k \in Clients :
          (pc[k] = "broadcast" /\ pc'[k] = "broadcast" /\ bc'[k] = bc[k])
          => /\ active_connections' = active_connections
             /\ client_tracking_id' = client_tracking_id]_vars

\* C25: when two location updates of one delivery are served together, the
\* point of every update that was answered is in location_history.
C25_ConcurrentLocationUpdatesKept ==
    \A r \in Requests :
       (/\ inflight[r].handler = "process_location_update"
        /\ inflight[r].pc = "done"
        /\ inflight[r].code = "200")
       => inflight[r].arg \in Range(db["T1"].location_history)

\* C26: of two verifications served together with the same correct code for
\* the same issued OTP, at most one succeeds.
C26_OneVerificationWins ==
    \A r1, r2 \in Requests :
       (/\ r1 # r2
        /\ inflight[r1].handler = "verify_otp"
        /\ inflight[r2].handler = "verify_otp"
        /\ inflight[r1].arg = inflight[r2].arg
        /\ inflight[r1].otp_result.exists
        /\ inflight[r1].otp_result = inflight[r2].otp_result)
       => ~(inflight[r1].code = "True" /\ inflight[r2].code = "True")

\* C27: a message received on a connection is broadcast only to the group
\* of the tracking id the connection was opened for: a status_update that
\* task k received has reached members of the group of path[k] only.
C27_MessageConfinedToOwnGroup ==
    \A k \in Clients :
       (bc[k].type = "status_update" /\ bc[k].sent # {})
       => /\ bc[k].tid = path[k]
          /\ \A c \in bc[k].sent : path[c] = path[k]

\* C28: whenever the registry lock is free the two maps agree
\* (client_tracking_id[c] = T exactly when c is a key of
\* active_connections[T]), no client is in two groups, no group is empty,
\* and a disconnect of a client that is not registered changes neither map.
C28_RegistryMapsAgree ==
    lock = NoHolder =>
       /\ \A c \in Clients, T \in TrackingIds :
             (c \in DOMAIN client_tracking_id /\ client_tracking_id[c] = T)
             <=> (T \in DOMAIN active_connections /\ c \in Range(active_connections[T]))
       /\ \A T, U \in DOMAIN active_connections :
             T # U => Range(active_connections[T]) \cap Range(active_connections[U]) = {}
       /\ \A T \in DOMAIN active_connections : active_connections[T] # << >>
       /\ \A c \in Clients \ DOMAIN client_tracking_id :
             /\ disconnect_active_connections(active_connections, client_tracking_id, c)
                   = active_connections
             /\ disconnect_client_tracking_id(active_connections, client_tracking_id, c)
                   = client_tracking_id

\* a client has been disconnected while two others are registered in the
\* two groups, and the lock is free
C28_Witness ==
    /\ lock = NoHolder
    /\ \E c \in left : c \notin DOMAIN client_tracking_id
    /\ DOMAIN active_connections = TrackingIds

\* C30: connect holds the registry lock while connection_status is being
\* sent: as long as the send of task c has not returned, no other connect,
\* disconnect or removal after a failed broadcast send changes the registry;
\* and, the sends returning, every leave that waits for the lock and every
\* broadcast in progress completes.
C30_ConnectHoldsLockDuringSend ==
    /\ [][\A c \in Clients :
             (pc[c] = "connect_send" /\ pc'[c] = "connect_send")
             => /\ lock = c
                /\ active_connections' = active_connections
                /\ client_tracking_id' = client_tracking_id]_vars
    /\ \A c \in Clients : (pc[c] = "cleanup") ~> (pc[c] = "done" /\ c \in left)
    /\ \A c \in Clients : (pc[c] = "broadcast") ~> (pc[c] # "broadcast")

\* task c is sending connection_status with the lock held while task d waits
\* for the lock to disconnect
C30_Witness ==
    \E c, d \in Clients :
       /\ pc[c] = "connect_send"
       /\ lock = c
       /\ pc[d] = "cleanup"
       /\ d \in DOMAIN client_tracking_id

============================================================================
